---- MODULE Spec2Model ----
(***************************************************************************)
(* A model of the Dispatch state-machine engine of padunk/dispatch         *)
(* (class Dispatch: constructor, dispatch, subscribe, getState,            *)
(* getCurrentEvent, getValidNextEvents, resetState).                       *)
(*                                                                         *)
(* The machine is single-threaded and synchronous: every public method     *)
(* runs to completion, so each method call is one action.                  *)
(***************************************************************************)
EXTENDS Integers, Sequences, FiniteSets, TLC

\* ------------------------------------------------------------------ bounds
\* The counter of the modelled state never exceeds MaxCount and its item list
\* never holds more than MaxItems elements (guards of the Dispatch action).
MaxCount == 2
MaxItems == 1

\* ------------------------------------------------------------ value universe
\* JavaScript null, as the value of #currentEvent.
Null == "<null>"

\* Names resolved through the prototype chain of a plain object: events["toString"]
\* is Object.prototype.toString although "toString" is no own key of events.
ProtoNames == {"toString"}

\* A name that is neither an own key nor on the prototype chain.
AbsentNames == {"nonexistent"}

\* The event names a configuration may declare.  Each name stands for one updater:
\*   increment : return-style,  (state) => ({ count: state.count + 1 })
\*   addItem   : draft-style,   (draft, payload) => { draft.items.push(payload) }
\*   reset     : return-style,  () => ({ count: 0 })
\*   fail      : an updater that throws
DeclNames == {"increment", "addItem", "reset", "fail"}

\* Event names that are canonical array indices, in ascending numeric order.
\* Each stands for the updater () => ({}).
IntegerLikeNames == <<"1", "2">>

\* An event whose updater returns a function of the draft:
\*   incrementLater : () => (draft) => { draft.count += 1 }
CurriedNames == {"incrementLater"}

\* Every string a caller may pass to dispatch(eventName).
EventNames == DeclNames \cup ProtoNames \cup AbsentNames

Payloads == {1}

\* Subscribed callbacks: l1 and l2 return normally, lx throws when invoked.
ListenerIds == {"l1", "l2", "lx"}
ListenerThrows(l) == l = "lx"

Range(s) == {s[i] : i \in 1..Len(s)}

\* Listeners that change the listener set when invoked:
\*   lu : () => unsubscribeL1()          (the function subscribe(l1) returned)
\*   ls : () => machine.subscribe(l1)
EditingIds == {"lu", "ls"}

\* A listener that dispatches on the machine it listens to:
\*   lr : (s) => { if (s.count === 1) machine.dispatch("increment") }
ReentrantIds == {"lr"}
ListenerDispatches(l, st) == l = "lr" /\ st.count = 1

\* The table of a createDispatch config holds at most MaxEntries entries.
MaxEntries == 2
\* A caller keeps at most MaxHandles of the functions subscribe returned.
MaxHandles == 3

\* ------------------------------------------------------------ configurations
\* events: the declared names in declaration order (Object.keys order).
EventsChoices == { <<"increment", "addItem", "reset", "fail">>,
                   <<"reset", "increment">> }

\* Declarations with integer-like names.
IntegerKeyedChoices == { <<"increment", "2", "1">>, <<"1", "reset", "increment">> }

\* A declaration with a function-returning updater.
CurriedChoices == { <<"increment", "incrementLater", "reset">> }

\* validNextEvents: a partial table.  Each key is absent or maps to one of these.
SuccChoices == { <<>>, <<"addItem", "reset">> }
TableKeys == {"increment", "addItem", "reset"}
Tables == UNION { [K -> SuccChoices] : K \in SUBSET TableKeys }

\* initialState: { count: 1, items: [] }
InitialStates == { [count |-> 1, items |-> <<>>] }

\* Configs of createDispatch.  The events object declares BuildEvents; the table
\* is written as a sequence of entries in creation order, each with a key and a
\* value that is undefined or an array of names; "ghost" and "phantom" are
\* declared nowhere.
BuildEvents == <<"increment", "reset">>
BuildKeys == {"increment", "reset", "ghost", "toString"}
BuildValues ==
  { [kind |-> "undefined", val |-> <<>>] }
    \cup { [kind |-> "array", val |-> v] :
             v \in { <<>>, <<"reset">>, <<"phantom">>, <<"reset", "phantom">> } }
BuildEntries == [key : BuildKeys, val : BuildValues]
TableDecls ==
  { t \in UNION { [1..n -> BuildEntries] : n \in 0..MaxEntries } :
      \A i, j \in 1..Len(t) : t[i].key = t[j].key => i = j }

\* schema: absent, or a validator whose safeParse accepts initialState or rejects
\* it with its own diagnostic message.
Schemas == {"none", "accepts", "rejectsCount", "rejectsItems"}

Configs == [initialState : InitialStates, events : {BuildEvents},
            validNextEvents : TableDecls, schema : Schemas]

VARIABLES
  events,           \* #events (declaration order of the own keys)
  validNextEvents,  \* #validNextEvents
  initialState,     \* #initialState
  state,            \* #state
  currentEvent,     \* #currentEvent
  listeners,        \* #listeners: a Set, kept in insertion order
  handles,          \* listeners for which subscribe() has returned an unsubscribe function
  last,             \* observation of the most recent call and its outcome
  lastOk,           \* name of the most recent dispatch that returned normally since
                    \* construction or the last resetState, or Null
  refs,             \* object identities: whether #state and #initialState are one
                    \* object, and the state object the caller holds a reference to
  build,            \* the createDispatch call the machine comes from, if any:
                    \* its config and its outcome
  issued            \* the unsubscribe functions a caller keeps apart, in the
                    \* order subscribe returned them: the listener each closes
                    \* over, and whether it has been called

vars == <<events, validNextEvents, initialState, state, currentEvent,
          listeners, handles, last, lastOk, refs, build, issued>>

\* ------------------------------------------------------- property lookups
\* this.#events[eventName]: own key, prototype function, or undefined.
eventsGet(ev, name) ==
  IF name \in Range(ev) THEN "updater"
  ELSE IF name \in ProtoNames THEN "protoFunction"
  ELSE "undefined"

\* this.#validNextEvents[currentEvent]: an array, a prototype function, or undefined.
tableGet(tbl, name) ==
  IF name \in DOMAIN tbl THEN [kind |-> "array", val |-> tbl[name]]
  ELSE IF name \in ProtoNames THEN [kind |-> "function", val |-> <<>>]
  ELSE [kind |-> "undefined", val |-> <<>>]

\* ------------------------------------------------------------- updaters
\* One call updater(draft, payload): whether it threw, the draft after the
\* in-place edits, and the returned value.
NoResult == [kind |-> "void", val |-> [none |-> 0]]

runUpdater(name, st, payload) ==
  CASE name = "increment" ->
         [threw |-> FALSE, draft |-> st,
          result |-> [kind |-> "object", val |-> [count |-> st.count + 1]]]
    [] name = "addItem" ->
         [threw |-> FALSE,
          draft |-> [st EXCEPT !.items = Append(@, payload)],
          result |-> NoResult]
    [] name = "reset" ->
         [threw |-> FALSE, draft |-> st,
          result |-> [kind |-> "object", val |-> [count |-> 0]]]
    [] name = "fail" ->
         [threw |-> TRUE, draft |-> st, result |-> NoResult]
    [] name \in Range(IntegerLikeNames) ->
         [threw |-> FALSE, draft |-> st, result |-> [kind |-> "object", val |-> <<>>]]
    [] name \in CurriedNames ->
         [threw |-> FALSE, draft |-> st,
          result |-> [kind |-> "function", val |-> [fn |-> name]]]
    [] name = "toString" ->
         \* Object.prototype.toString called as a plain function returns a string
         [threw |-> FALSE, draft |-> st,
          result |-> [kind |-> "string", val |-> [none |-> 0]]]

\* Variant: the returned object is ignored.
objectAssign_ignored(draft, result) == draft

\* The draft after the function returned by updater `name` has run on it.
runContinuation(name, draft) ==
  IF name = "incrementLater" THEN [draft EXCEPT !.count = @ + 1] ELSE draft

\* Object.assign(draft, result)
objectAssign(draft, result) ==
  [k \in DOMAIN draft \cup DOMAIN result |->
     IF k \in DOMAIN result THEN result[k] ELSE draft[k]]

\* produce(this.#state, draft => { ... }): the recipe of dispatch.
produceState(st, name, payload) ==
  LET r == runUpdater(name, st, payload) IN
  IF r.threw THEN [threw |-> TRUE, state |-> st]
  ELSE [threw |-> FALSE,
        state |-> IF r.result.kind = "object"
                  THEN objectAssign(r.draft, r.result.val)
                  ELSE r.draft]

\* Variant: Immer with auto-freezing switched off.
autoFreeze_off == FALSE

\* Immer's autoFreeze_ default: produce deep-freezes the object it returns, also
\* when the recipe changed nothing and the result is the base object itself.
autoFreeze == TRUE

\* Variant: produce hands back the base object, updated, every time.
producesNewObject_never(base, result) == FALSE

\* produce(base, recipe) returns the base object itself when the recipe left the
\* draft unmodified, and a new object otherwise.
producesNewObject(base, result) == result # base

\* Variant: the recipe edits the base object in place.
draftWrites_inPlace(base, edited) == edited

\* What the base object holds after a recipe edited its draft into edited: the
\* draft is a copy-on-write proxy, so the base keeps its content.
draftWrites(base, edited) == base

\* What a caller's assignment held.count = -1 leaves in the object it holds:
\* nothing changes when the object is frozen.
callerWrite(val, frozen) == IF frozen THEN val ELSE [val EXCEPT !.count = -1]

\* ------------------------------------------------------------- the engine
\* dispatch, "Validate event exists": !this.#events[eventName] is false.
eventExists(ev, name) == eventsGet(ev, name) # "undefined"

\* Variant: the membership test of the successor list is left out.
transitionError_noIncludes(tbl, cur, name) ==
  IF cur = Null THEN "none"
  ELSE LET validNext == tableGet(tbl, cur) IN
       IF validNext.kind # "array" THEN "notArray" ELSE "none"

\* Variant: the table is consulted even when there is no current event.
transitionError_noBootstrap(tbl, cur, name) ==
  LET validNext == tableGet(tbl, cur) IN
  IF validNext.kind # "array" THEN "notArray"
  ELSE IF Len(validNext.val) > 0 /\ name \notin Range(validNext.val)
       THEN "invalidTransition"
       ELSE "none"

\* Variant: an empty successor list permits nothing.
transitionError_emptyForbids(tbl, cur, name) ==
  IF cur = Null THEN "none"
  ELSE LET validNext == tableGet(tbl, cur) IN
       IF validNext.kind # "array" THEN "notArray"
       ELSE IF name \notin Range(validNext.val)
            THEN "invalidTransition"
            ELSE "none"

\* dispatch, "Validate transition is allowed": the error the check raises, or "none".
transitionError(tbl, cur, name) ==
  IF cur = Null THEN "none"
  ELSE LET validNext == tableGet(tbl, cur) IN
       IF validNext.kind # "array" THEN "notArray"
       ELSE IF Len(validNext.val) > 0 /\ name \notin Range(validNext.val)
            THEN "invalidTransition"
            ELSE "none"

\* Variant: a listener's exception is caught, the pass goes on to the end.
notify_isolated(ls, i, st, cur) ==
  [calls |-> [j \in 1..(Len(ls) - i + 1) |->
                [listener |-> ls[j + i - 1], state |-> st,
                 seenState |-> st, seenEvent |-> cur]],
   threw |-> FALSE]

\* this.#listeners.forEach((listener) => listener(this.#state)) from position i on,
\* with #state = st and #currentEvent = cur while the pass runs: the invocations
\* made, in order, and whether one of them threw (which ends the pass).  Each
\* invocation records the argument passed and what getState() and
\* getCurrentEvent() return inside the listener.
RECURSIVE notify(_, _, _, _)
notify(ls, i, st, cur) ==
  IF i > Len(ls) THEN [calls |-> <<>>, threw |-> FALSE]
  ELSE LET call == <<[listener |-> ls[i], state |-> st,
                      seenState |-> st, seenEvent |-> cur]>> IN
       IF ListenerThrows(ls[i]) THEN [calls |-> call, threw |-> TRUE]
       ELSE LET rest == notify(ls, i + 1, st, cur) IN
            [calls |-> call \o rest.calls, threw |-> rest.threw]

\* Variant: the listeners are notified before the current event is recorded.
dispatch_notifyBeforeTracking(m, name, payload) ==
  LET rejected(e) == [err |-> e, state |-> m.state, currentEvent |-> m.currentEvent,
                      listeners |-> m.listeners, calls |-> <<>>,
                      updaterCalled |-> FALSE]
  IN
  IF eventsGet(m.events, name) = "undefined" THEN rejected("unknownEvent")
  ELSE LET t == IF m.currentEvent = Null THEN "none"
                ELSE LET validNext == tableGet(m.validNextEvents, m.currentEvent) IN
                     IF validNext.kind # "array" THEN "notArray"
                     ELSE IF Len(validNext.val) > 0 /\ name \notin Range(validNext.val)
                          THEN "invalidTransition"
                          ELSE "none"
       IN
       IF t # "none" THEN rejected(t)
       ELSE LET p == produceState(m.state, name, payload) IN
            IF p.threw
            THEN [rejected("updaterThrew") EXCEPT !.updaterCalled = TRUE]
            ELSE LET n == notify(m.listeners, 1, p.state, m.currentEvent) IN
                 [err |-> IF n.threw THEN "listenerThrew" ELSE "none",
                  state |-> p.state,
                  currentEvent |-> name,
                  listeners |-> m.listeners,
                  calls |-> n.calls,
                  updaterCalled |-> TRUE]

\* Variant: #currentEvent is assigned before the updater runs.
dispatch_tracksBeforeUpdater(m, name, payload) ==
  LET rejected(e) == [err |-> e, state |-> m.state, currentEvent |-> m.currentEvent,
                      listeners |-> m.listeners, calls |-> <<>>,
                      updaterCalled |-> FALSE]
  IN
  IF ~eventExists(m.events, name) THEN rejected("unknownEvent")
  ELSE LET t == transitionError(m.validNextEvents, m.currentEvent, name) IN
       IF t # "none" THEN rejected(t)
       ELSE LET p == produceState(m.state, name, payload) IN
            IF p.threw
            THEN [rejected("updaterThrew") EXCEPT !.updaterCalled = TRUE,
                                                  !.currentEvent = name]
            ELSE LET n == notify(m.listeners, 1, p.state, name) IN
                 [err |-> IF n.threw THEN "listenerThrew" ELSE "none",
                  state |-> p.state,
                  currentEvent |-> name,
                  listeners |-> m.listeners,
                  calls |-> n.calls,
                  updaterCalled |-> TRUE]

\* dispatch(eventName, payload) on machine m: the error raised ("none" when the call
\* returns), the fields after the call, the listener invocations made and whether
\* the updater was invoked.
dispatch(m, name, payload) ==
  LET rejected(e) == [err |-> e, state |-> m.state, currentEvent |-> m.currentEvent,
                      listeners |-> m.listeners, calls |-> <<>>,
                      updaterCalled |-> FALSE]
  IN
  IF ~eventExists(m.events, name) THEN rejected("unknownEvent")
  ELSE LET t == transitionError(m.validNextEvents, m.currentEvent, name) IN
       IF t # "none" THEN rejected(t)
       ELSE LET p == produceState(m.state, name, payload) IN
            IF p.threw
            THEN [rejected("updaterThrew") EXCEPT !.updaterCalled = TRUE]
            ELSE LET n == notify(m.listeners, 1, p.state, name) IN
                 [err |-> IF n.threw THEN "listenerThrew" ELSE "none",
                  state |-> p.state,
                  currentEvent |-> name,
                  listeners |-> m.listeners,
                  calls |-> n.calls,
                  updaterCalled |-> TRUE]

\* dispatch and its notification pass when listeners may dispatch again.  The
\* pass runs on the machine as it is at each invocation: listener(this.#state)
\* reads #state when the listener is called.  Each invocation records the state
\* passed, the state produced by the dispatch call that makes the invocation,
\* and the nesting depth of that call; an exception of a nested dispatch leaves
\* through the listener that made it.
RECURSIVE dispatchNested(_, _, _, _)
RECURSIVE notifyNested(_, _, _, _, _)
notifyNested(m, i, produced, payload, depth) ==
  IF i > Len(m.listeners)
  THEN [m |-> m, calls |-> <<>>, err |-> "none", returned |-> <<>>]
  ELSE LET l == m.listeners[i]
           call == <<[listener |-> l, state |-> m.state, seenState |-> m.state,
                      seenEvent |-> m.currentEvent, produced |-> produced,
                      depth |-> depth]>>
       IN
       IF ListenerThrows(l)
       THEN [m |-> m, calls |-> call, err |-> "listenerThrew", returned |-> <<>>]
       ELSE IF ~ListenerDispatches(l, m.state)
       THEN LET rest == notifyNested(m, i + 1, produced, payload, depth) IN
            [rest EXCEPT !.calls = call \o @]
       ELSE LET inner == dispatchNested(m, "increment", payload, depth + 1)
                after == [m EXCEPT !.state = inner.state,
                                   !.currentEvent = inner.currentEvent]
            IN
            IF inner.err # "none"
            THEN [m |-> after, calls |-> call \o inner.calls, err |-> inner.err,
                  returned |-> inner.returned]
            ELSE LET rest == notifyNested(after, i + 1, produced, payload, depth) IN
                 [rest EXCEPT !.calls = call \o inner.calls \o @,
                              !.returned = inner.returned \o @]

\* Variant: the current event is recorded after the notification pass.
dispatchNested_trackAfterNotify(m, name, payload, depth) ==
  LET rejected(e) == [err |-> e, state |-> m.state, currentEvent |-> m.currentEvent,
                      listeners |-> m.listeners, calls |-> <<>>,
                      updaterCalled |-> FALSE, returned |-> <<>>]
  IN
  IF ~eventExists(m.events, name) THEN rejected("unknownEvent")
  ELSE LET t == transitionError(m.validNextEvents, m.currentEvent, name) IN
       IF t # "none" THEN rejected(t)
       ELSE LET p == produceState(m.state, name, payload) IN
            IF p.threw
            THEN [rejected("updaterThrew") EXCEPT !.updaterCalled = TRUE]
            ELSE LET n == notifyNested([m EXCEPT !.state = p.state],
                                       1, p.state, payload, depth)
                 IN [err |-> n.err,
                     state |-> n.m.state,
                     currentEvent |-> IF n.err = "none" THEN name
                                      ELSE n.m.currentEvent,
                     listeners |-> m.listeners,
                     calls |-> n.calls,
                     updaterCalled |-> TRUE,
                     returned |-> IF n.err = "none" THEN Append(n.returned, name)
                                  ELSE n.returned]

dispatchNested(m, name, payload, depth) ==
  LET rejected(e) == [err |-> e, state |-> m.state, currentEvent |-> m.currentEvent,
                      listeners |-> m.listeners, calls |-> <<>>,
                      updaterCalled |-> FALSE, returned |-> <<>>]
  IN
  IF ~eventExists(m.events, name) THEN rejected("unknownEvent")
  ELSE LET t == transitionError(m.validNextEvents, m.currentEvent, name) IN
       IF t # "none" THEN rejected(t)
       ELSE LET p == produceState(m.state, name, payload) IN
            IF p.threw
            THEN [rejected("updaterThrew") EXCEPT !.updaterCalled = TRUE]
            ELSE LET n == notifyNested([m EXCEPT !.state = p.state,
                                                !.currentEvent = name],
                                       1, p.state, payload, depth)
                 IN [err |-> n.err,
                     state |-> n.m.state,
                     currentEvent |-> n.m.currentEvent,
                     listeners |-> m.listeners,
                     calls |-> n.calls,
                     updaterCalled |-> TRUE,
                     returned |-> IF n.err = "none" THEN Append(n.returned, name)
                                  ELSE n.returned]

\* The entry list of the #listeners Set while forEach runs over it: Set.delete
\* empties the entry in place, Set.add appends an entry unless the value is
\* present.  What invoking listener l does to it:
listenerEdits(entries, l) ==
  IF l = "lu" THEN [j \in 1..Len(entries) |-> IF entries[j] = "l1" THEN Null ELSE entries[j]]
  ELSE IF l = "ls" /\ "l1" \notin Range(entries) THEN Append(entries, "l1")
  ELSE entries

\* this.#listeners.forEach((listener) => listener(this.#state)) from entry i on:
\* forEach walks the live entry list, so it skips entries emptied before it
\* reaches them and visits entries appended while it runs.
RECURSIVE notifyLive(_, _, _, _)
notifyLive(entries, i, st, cur) ==
  IF i > Len(entries) THEN [entries |-> entries, calls |-> <<>>, threw |-> FALSE]
  ELSE IF entries[i] = Null THEN notifyLive(entries, i + 1, st, cur)
  ELSE LET call == <<[listener |-> entries[i], state |-> st,
                      seenState |-> st, seenEvent |-> cur]>> IN
       IF ListenerThrows(entries[i])
       THEN [entries |-> entries, calls |-> call, threw |-> TRUE]
       ELSE LET rest == notifyLive(listenerEdits(entries, entries[i]), i + 1, st, cur)
            IN [rest EXCEPT !.calls = call \o @]

\* dispatch on a machine whose listeners may subscribe and unsubscribe.
dispatchLive(m, name, payload) ==
  LET rejected(e) == [err |-> e, state |-> m.state, currentEvent |-> m.currentEvent,
                      listeners |-> m.listeners, calls |-> <<>>,
                      updaterCalled |-> FALSE]
  IN
  IF ~eventExists(m.events, name) THEN rejected("unknownEvent")
  ELSE LET t == transitionError(m.validNextEvents, m.currentEvent, name) IN
       IF t # "none" THEN rejected(t)
       ELSE LET p == produceState(m.state, name, payload) IN
            IF p.threw
            THEN [rejected("updaterThrew") EXCEPT !.updaterCalled = TRUE]
            ELSE LET n == notifyLive(m.listeners, 1, p.state, name) IN
                 [err |-> IF n.threw THEN "listenerThrew" ELSE "none",
                  state |-> p.state,
                  currentEvent |-> name,
                  listeners |-> SelectSeq(n.entries, LAMBDA x : x # Null),
                  calls |-> n.calls,
                  updaterCalled |-> TRUE]

\* Variant: the listeners are kept in a list, so a callback can be held twice.
subscribe_list(ls, l) == Append(ls, l)

\* Variant: subscribing replaces the listeners subscribed so far.
subscribe_replaces(ls, l) == <<l>>

\* subscribe(listener): Set.prototype.add keeps one membership per callback.
subscribe(ls, l) == IF l \in Range(ls) THEN ls ELSE Append(ls, l)

\* Variant: the returned function empties the listener set.
unsubscribe_clear(ls, l) == <<>>

\* The function subscribe returns: this.#listeners.delete(listener).
unsubscribe(ls, l) == SelectSeq(ls, LAMBDA x : x # l)

\* getState(): produce(this.#state, () => {}) returns the current snapshot.
getState(st) == st

\* getCurrentEvent()
getCurrentEvent(cur) == cur

\* Object.keys(obj) for an object whose own keys were created in the order decl:
\* integer-like keys first, in ascending numeric order, then the other string
\* keys in creation order (OrdinaryOwnPropertyKeys).
objectKeys(decl) ==
  SelectSeq(IntegerLikeNames, LAMBDA k : k \in Range(decl))
    \o SelectSeq(decl, LAMBDA k : k \notin Range(IntegerLikeNames))

\* getValidNextEvents()
getValidNextEvents(ev, tbl, cur) ==
  IF cur = Null THEN [kind |-> "array", val |-> objectKeys(ev)]
  ELSE LET entry == tableGet(tbl, cur) IN
       IF entry.kind = "undefined" THEN [kind |-> "array", val |-> <<>>] ELSE entry

\* Variant: the current event is cleared but the state is kept.
resetState_keepsState(m) ==
  [state |-> m.state, currentEvent |-> Null, listeners |-> m.listeners]

\* Variant: the listeners are dropped as well.
resetState_clearsListeners(m) ==
  [state |-> m.initialState, currentEvent |-> Null, listeners |-> <<>>]

\* resetState(): the state, current event and listener set after the call.
resetState(m) ==
  [state |-> m.initialState, currentEvent |-> Null, listeners |-> m.listeners]

\* ------------------------------------------------------------- the builder
\* Object.entries(obj) of an object whose entries were created in the order decl.
objectEntries(decl) ==
  LET keys == objectKeys([i \in 1..Len(decl) |-> decl[i].key])
  IN [i \in 1..Len(keys) |-> CHOOSE e \in Range(decl) : e.key = keys[i]]

\* Variant: table keys are not checked.
unknownKey_never(names, key) == FALSE

\* !eventNames.includes(event)
unknownKey(names, key) == key \notin Range(names)

\* Variant: successor names are not checked.
unknownSuccessor_never(names, nextEvents) == Null

\* The first nextEvent of an array with !eventNames.includes(nextEvent), or Null;
\* a value that is not an array is not looked into.
unknownSuccessor(names, nextEvents) ==
  LET bad == SelectSeq(nextEvents.val, LAMBDA n : n \notin Range(names))
  IN IF nextEvents.kind = "array" /\ bad # <<>> THEN Head(bad) ELSE Null

\* Variant: only the first entry of the table is validated.
checkReferences_firstOnly(names, entries, i) ==
  IF i > 1 \/ entries = <<>>
  THEN [err |-> "none", key |-> Null, name |-> Null, message |-> Null]
  ELSE IF unknownKey(names, entries[1].key)
  THEN [err |-> "unknownKey", key |-> entries[1].key, name |-> entries[1].key,
        message |-> Null]
  ELSE IF unknownSuccessor(names, entries[1].val) # Null
  THEN [err |-> "unknownSuccessor", key |-> entries[1].key,
        name |-> unknownSuccessor(names, entries[1].val), message |-> Null]
  ELSE [err |-> "none", key |-> Null, name |-> Null, message |-> Null]

\* The loop over Object.entries(validNextEvents): the first throw, if any.
RECURSIVE checkReferences(_, _, _)
checkReferences(names, entries, i) ==
  IF i > Len(entries)
  THEN [err |-> "none", key |-> Null, name |-> Null, message |-> Null]
  ELSE IF unknownKey(names, entries[i].key)
  THEN [err |-> "unknownKey", key |-> entries[i].key, name |-> entries[i].key,
        message |-> Null]
  ELSE IF unknownSuccessor(names, entries[i].val) # Null
  THEN [err |-> "unknownSuccessor", key |-> entries[i].key,
        name |-> unknownSuccessor(names, entries[i].val), message |-> Null]
  ELSE checkReferences(names, entries, i + 1)

\* validNextEventsRecord[key] = validNextEvents[key] || []
validNextEventsRecord(decl) ==
  [k \in {decl[i].key : i \in 1..Len(decl)} |->
     LET e == CHOOSE e \in Range(decl) : e.key = k
     IN IF e.val.kind = "array" THEN e.val.val ELSE <<>>]

\* schema.safeParse(initialState): success, or failure with error.message.
safeParse(schema, value) ==
  CASE schema = "rejectsCount" -> [success |-> FALSE, message |-> "count too small"]
    [] schema = "rejectsItems" -> [success |-> FALSE, message |-> "items required"]
    [] OTHER -> [success |-> TRUE, message |-> Null]

\* if (schema) { ... if (!result.success) throw ... }
validationError(config) ==
  IF config.schema # "none" /\ ~safeParse(config.schema, config.initialState).success
  THEN [err |-> "validationFailed", key |-> Null, name |-> Null,
        message |-> safeParse(config.schema, config.initialState).message]
  ELSE [err |-> "none", key |-> Null, name |-> Null, message |-> Null]

\* The reference loop of createDispatch on its own.
referenceError(config) ==
  checkReferences(objectKeys(config.events), objectEntries(config.validNextEvents), 1)

\* Variant: the transition table is validated before the initial state.
createDispatch_referencesFirst(config) ==
  IF referenceError(config).err # "none" THEN referenceError(config)
  ELSE validationError(config)

\* createDispatch(config): the error thrown, or "none" when a machine is returned.
createDispatch(config) ==
  IF validationError(config).err # "none" THEN validationError(config)
  ELSE referenceError(config)

\* ------------------------------------------------------------ state machine
Machine == [initialState |-> initialState, state |-> state, events |-> events,
            validNextEvents |-> validNextEvents, currentEvent |-> currentEvent,
            listeners |-> listeners]

NoCall == [op |-> "new", event |-> Null, listener |-> Null, err |-> "none",
           from |-> Null, calls |-> <<>>, updaterCalled |-> FALSE]

\* The machine was constructed with new Dispatch directly.
NotBuilt == [status |-> "direct"]

\* new Dispatch({ initialState, events, validNextEvents }), the events object
\* being one of decls.
Constructed(decls) ==
  /\ events \in decls
  /\ validNextEvents \in Tables
  /\ initialState \in InitialStates
  /\ state = initialState
  /\ currentEvent = Null
  /\ listeners = <<>>
  /\ handles = {}
  /\ last = NoCall
  /\ lastOk = Null
  \* produce(initialState, () => {}) returns the caller's object, frozen: both
  \* fields and the caller's own reference are the same object.
  /\ refs = [stateIsInit |-> TRUE,
             held |-> [src |-> "initialState", got |-> initialState,
                       val |-> initialState, isState |-> TRUE, isInit |-> TRUE]]
  /\ build = NotBuilt
  /\ issued = <<>>

Init == Constructed(EventsChoices)

\* No machine exists: createDispatch has not been called yet, or it threw.
NoMachine ==
  /\ events = <<>>
  /\ validNextEvents = <<>>
  /\ state = initialState
  /\ currentEvent = Null
  /\ listeners = <<>>
  /\ handles = {}
  /\ lastOk = Null

\* A caller is about to call createDispatch(config).
InitBuild ==
  /\ \E config \in Configs :
       /\ build = [status |-> "pending", config |-> config, err |-> "none",
                   key |-> Null, name |-> Null, message |-> Null]
       /\ initialState = config.initialState
  /\ NoMachine
  /\ last = NoCall
  /\ issued = <<>>
  /\ refs = [stateIsInit |-> TRUE,
             held |-> [src |-> "initialState", got |-> initialState,
                       val |-> initialState, isState |-> TRUE, isInit |-> TRUE]]

\* createDispatch(config): throws, or returns new Dispatch({ initialState, events,
\* validNextEvents: validNextEventsRecord }).
Build ==
  /\ build.status = "pending"
  /\ LET r == createDispatch(build.config) IN
     /\ build' = [build EXCEPT !.status = IF r.err = "none" THEN "built" ELSE "failed",
                               !.err = r.err, !.key = r.key, !.name = r.name,
                               !.message = r.message]
     /\ events' = IF r.err = "none" THEN build.config.events ELSE events
     /\ validNextEvents' = IF r.err = "none"
                           THEN validNextEventsRecord(build.config.validNextEvents)
                           ELSE validNextEvents
     /\ last' = [NoCall EXCEPT !.op = "createDispatch"]
  /\ UNCHANGED <<initialState, state, currentEvent, listeners, handles, lastOk, refs,
                 issued>>

\* The machine createDispatch returned is in use.
Built == build.status = "built"

InBounds(st) == st.count <= MaxCount /\ Len(st.items) <= MaxItems

\* The object identities after #state was assigned produce(#state, recipe) = next;
\* with keep, a listener hands the caller the state object it was passed.
refsAfterDispatch(r, prev, next, keep) ==
  LET fresh == producesNewObject(prev, next)
      same == IF fresh THEN FALSE ELSE r.stateIsInit
  IN [stateIsInit |-> same,
      held |-> IF keep
               THEN [src |-> "listener", got |-> next, val |-> next,
                     isState |-> TRUE, isInit |-> same]
               ELSE [r.held EXCEPT !.isState = IF fresh THEN FALSE ELSE @,
                                   !.val = IF ~r.held.isState THEN @
                                           ELSE IF fresh THEN draftWrites(@, next)
                                           ELSE next]]

DispatchCall(name, payload, keep) ==
  LET r == dispatch(Machine, name, payload) IN
  /\ InBounds(r.state)
  /\ keep => r.calls # <<>> /\ ~ListenerThrows(r.calls[1].listener)
  /\ refs' = IF r.updaterCalled /\ r.err # "updaterThrew"
             THEN refsAfterDispatch(refs, state, r.state, keep)
             ELSE refs
  /\ state' = r.state
  /\ currentEvent' = r.currentEvent
  /\ listeners' = r.listeners
  /\ last' = [op |-> "dispatch", event |-> name, listener |-> Null, err |-> r.err,
              from |-> currentEvent, calls |-> r.calls,
              updaterCalled |-> r.updaterCalled]
  /\ lastOk' = IF r.err = "none" THEN name ELSE lastOk
  /\ initialState' = IF r.updaterCalled /\ r.err # "updaterThrew" /\ refs.stateIsInit
                     THEN IF producesNewObject(state, r.state)
                          THEN draftWrites(initialState, r.state)
                          ELSE r.state
                     ELSE initialState
  /\ UNCHANGED <<events, validNextEvents, handles, build, issued>>

Dispatch(name, payload) == DispatchCall(name, payload, FALSE)

\* dispatch(name, payload) on a machine whose listeners may subscribe and
\* unsubscribe.
DispatchLive(name, payload) ==
  LET r == dispatchLive(Machine, name, payload) IN
  /\ InBounds(r.state)
  /\ refs' = IF r.updaterCalled /\ r.err # "updaterThrew"
             THEN refsAfterDispatch(refs, state, r.state, FALSE)
             ELSE refs
  /\ state' = r.state
  /\ currentEvent' = r.currentEvent
  /\ listeners' = r.listeners
  /\ handles' = handles \cup Range(r.listeners)
  /\ last' = [op |-> "dispatch", event |-> name, listener |-> Null, err |-> r.err,
              from |-> currentEvent, calls |-> r.calls,
              updaterCalled |-> r.updaterCalled]
  /\ lastOk' = IF r.err = "none" THEN name ELSE lastOk
  /\ UNCHANGED <<events, validNextEvents, initialState, build, issued>>

\* dispatch(name, payload) on a machine whose listeners may dispatch again.
DispatchNested(name, payload) ==
  LET r == dispatchNested(Machine, name, payload, 0) IN
  /\ InBounds(r.state)
  /\ refs' = IF r.updaterCalled /\ r.err # "updaterThrew"
             THEN refsAfterDispatch(refs, state, r.state, FALSE)
             ELSE refs
  /\ state' = r.state
  /\ currentEvent' = r.currentEvent
  /\ last' = [op |-> "dispatch", event |-> name, listener |-> Null, err |-> r.err,
              from |-> currentEvent, calls |-> r.calls,
              updaterCalled |-> r.updaterCalled]
  /\ lastOk' = IF r.returned # <<>> THEN r.returned[Len(r.returned)] ELSE lastOk
  /\ UNCHANGED <<events, validNextEvents, initialState, listeners, handles, build, issued>>

\* A dispatch during which a listener keeps the state object it was passed.
DispatchKeep(name, payload) == DispatchCall(name, payload, TRUE)

Subscribe(l) ==
  /\ listeners' = subscribe(listeners, l)
  /\ handles' = handles \cup {l}
  /\ last' = [NoCall EXCEPT !.op = "subscribe", !.listener = l, !.from = currentEvent]
  /\ UNCHANGED <<events, validNextEvents, initialState, state, currentEvent, lastOk,
                 refs, build, issued>>

Unsubscribe(l) ==
  /\ l \in handles
  /\ listeners' = unsubscribe(listeners, l)
  /\ last' = [NoCall EXCEPT !.op = "unsubscribe", !.listener = l, !.from = currentEvent]
  /\ UNCHANGED <<events, validNextEvents, initialState, state, currentEvent,
                 handles, lastOk, refs, build, issued>>

\* u = subscribe(l), the caller keeping u: the returned closure is
\* () => this.#listeners.delete(l).
SubscribeHandle(l) ==
  /\ Len(issued) < MaxHandles
  /\ listeners' = subscribe(listeners, l)
  /\ handles' = handles \cup {l}
  /\ issued' = Append(issued, [listener |-> l, called |-> FALSE])
  /\ last' = [NoCall EXCEPT !.op = "subscribe", !.listener = l, !.from = currentEvent]
  /\ UNCHANGED <<events, validNextEvents, initialState, state, currentEvent, lastOk,
                 refs, build>>

\* u(), for the h-th unsubscribe function the caller keeps; it may have been
\* called before.
CallHandle(h) ==
  /\ h \in 1..Len(issued)
  /\ listeners' = unsubscribe(listeners, issued[h].listener)
  /\ issued' = [issued EXCEPT ![h].called = TRUE]
  /\ last' = [NoCall EXCEPT !.op = "unsubscribe", !.listener = issued[h].listener,
                            !.from = currentEvent]
  /\ UNCHANGED <<events, validNextEvents, initialState, state, currentEvent,
                 handles, lastOk, refs, build>>

ResetState ==
  LET r == resetState(Machine) IN
  /\ state' = r.state
  /\ currentEvent' = r.currentEvent
  /\ listeners' = r.listeners
  /\ last' = [NoCall EXCEPT !.op = "resetState", !.from = currentEvent]
  /\ lastOk' = Null
  \* produce(#initialState, () => {}) returns the #initialState object itself
  /\ refs' = [stateIsInit |-> TRUE,
              held |-> [refs.held EXCEPT !.isState = refs.held.isInit]]
  /\ UNCHANGED <<events, validNextEvents, initialState, handles, build, issued>>

\* const s = machine.getState(): the caller now holds the #state object.
GetState ==
  /\ refs' = [refs EXCEPT !.held = [src |-> "getState", got |-> getState(state),
                                    val |-> getState(state), isState |-> TRUE,
                                    isInit |-> refs.stateIsInit]]
  /\ last' = [NoCall EXCEPT !.op = "getState", !.from = currentEvent]
  /\ UNCHANGED <<events, validNextEvents, initialState, state, currentEvent,
                 listeners, handles, lastOk, build, issued>>

\* machine.getCurrentEvent(): return this.#currentEvent.
GetCurrentEvent ==
  /\ getCurrentEvent(currentEvent) \in EventNames \cup {Null}
  /\ last' = [NoCall EXCEPT !.op = "getCurrentEvent", !.from = currentEvent]
  /\ UNCHANGED <<events, validNextEvents, initialState, state, currentEvent,
                 listeners, handles, lastOk, refs, build, issued>>

\* machine.getValidNextEvents(): returns Object.keys(this.#events), or the table
\* entry of the current event, or a new [].
GetValidNextEvents ==
  /\ getValidNextEvents(events, validNextEvents, currentEvent).kind
       \in {"array", "protoFunction"}
  /\ last' = [NoCall EXCEPT !.op = "getValidNextEvents", !.from = currentEvent]
  /\ UNCHANGED <<events, validNextEvents, initialState, state, currentEvent,
                 listeners, handles, lastOk, refs, build, issued>>

\* The caller writes to the object it holds (held.count = -1).  Every object it
\* can hold was returned by produce, which froze it if autoFreeze is on.
Mutate ==
  /\ refs' = [refs EXCEPT !.held.val = callerWrite(@, autoFreeze)]
  /\ state' = IF refs.held.isState THEN callerWrite(state, autoFreeze) ELSE state
  /\ initialState' = IF refs.held.isInit THEN callerWrite(initialState, autoFreeze)
                     ELSE initialState
  /\ last' = [NoCall EXCEPT !.op = "mutate", !.from = currentEvent]
  /\ UNCHANGED <<events, validNextEvents, currentEvent, listeners, handles, lastOk,
                 build, issued>>

Next ==
  \/ \E name \in EventNames, payload \in Payloads : Dispatch(name, payload)
  \/ \E l \in ListenerIds : Subscribe(l)
  \/ \E l \in ListenerIds : Unsubscribe(l)
  \/ ResetState

Spec == Init /\ [][Next]_vars

\* The machine together with a caller that keeps and writes to the state objects
\* it is given: one unrestricted configuration, one listener.
InitHeld ==
  /\ Init
  /\ Len(events) = 4
  /\ validNextEvents = [k \in TableKeys |-> <<>>]

NextHeld ==
  \/ \E name \in DeclNames, payload \in Payloads : Dispatch(name, payload)
  \/ \E name \in DeclNames, payload \in Payloads : DispatchKeep(name, payload)
  \/ Subscribe("l1")
  \/ ResetState
  \/ GetState
  \/ Mutate

SpecHeld == InitHeld /\ [][NextHeld]_vars

\* What a caller may do to an array it was handed: arr.length = 0, or
\* arr.push("increment").
ArrayWrites == {"clear", "push"}

arrayWrite(arr, w) ==
  IF w = "clear" THEN <<>>
  ELSE IF "increment" \in Range(arr) THEN arr ELSE Append(arr, "increment")

\* m.getValidNextEvents() followed by a write to the array it returned.  With a
\* current event that has a table entry the array is that entry itself; with no
\* current event it is a new Object.keys array, and with no entry a new [].
WriteValidNextEvents(w) ==
  /\ validNextEvents' =
       IF currentEvent # Null /\ tableGet(validNextEvents, currentEvent).kind = "array"
       THEN [validNextEvents EXCEPT ![currentEvent] = arrayWrite(@, w)]
       ELSE validNextEvents
  /\ last' = [NoCall EXCEPT !.op = "writeValidNextEvents", !.from = currentEvent]
  /\ UNCHANGED <<events, initialState, state, currentEvent, listeners, handles,
                 lastOk, refs, build, issued>>

\* The machine together with a caller that writes to the arrays
\* getValidNextEvents() returns.
InitShared ==
  /\ Init
  /\ Len(events) = 4

NextShared ==
  \/ \E name \in DeclNames, payload \in Payloads : Dispatch(name, payload)
  \/ Subscribe("l1")
  \/ Unsubscribe("l1")
  \/ ResetState
  \/ \E w \in ArrayWrites : WriteValidNextEvents(w)

SpecShared == InitShared /\ [][NextShared]_vars

\* The machine with a listener that dispatches from inside the notification.
NextNested ==
  \/ \E name \in DeclNames, payload \in Payloads : DispatchNested(name, payload)
  \/ \E l \in ReentrantIds \cup {"l1"} : Subscribe(l)
  \/ \E l \in ReentrantIds \cup {"l1"} : Unsubscribe(l)
  \/ ResetState

SpecNested == InitShared /\ [][NextNested]_vars

\* The machine with listeners that subscribe and unsubscribe from inside the
\* notification.
NextLive ==
  \/ \E name \in {"increment", "reset"}, payload \in Payloads : DispatchLive(name, payload)
  \/ \E l \in EditingIds \cup {"l1"} : Subscribe(l)
  \/ \E l \in EditingIds \cup {"l1"} : Unsubscribe(l)
  \/ ResetState

SpecLive == InitHeld /\ [][NextLive]_vars

\* The machine with a caller that also reads it.
NextReads ==
  \/ \E name \in {"increment", "reset"}, payload \in Payloads : Dispatch(name, payload)
  \/ \E l \in {"l1", "l2"} : Subscribe(l)
  \/ \E l \in {"l1", "l2"} : Unsubscribe(l)
  \/ ResetState
  \/ GetState
  \/ GetCurrentEvent
  \/ GetValidNextEvents

SpecReads == InitShared /\ [][NextReads]_vars

\* The machine with a caller that keeps every unsubscribe function apart.
NextHandles ==
  \/ \E name \in {"increment", "reset"}, payload \in Payloads : Dispatch(name, payload)
  \/ \E l \in {"l1", "l2"} : SubscribeHandle(l)
  \/ \E h \in 1..MaxHandles : CallHandle(h)
  \/ ResetState

SpecHandles == InitHeld /\ [][NextHandles]_vars

\* The machine over declarations that contain integer-like event names.
InitKeys == Constructed(IntegerKeyedChoices)

NextKeys ==
  \/ \E name \in Range(IntegerLikeNames) \cup {"increment", "reset"}, payload \in Payloads :
        Dispatch(name, payload)
  \/ Subscribe("l1")
  \/ Unsubscribe("l1")
  \/ ResetState

SpecKeys == InitKeys /\ [][NextKeys]_vars

\* The machine over a declaration with a function-returning updater.
InitCurried == Constructed(CurriedChoices)

NextCurried ==
  \/ \E name \in CurriedNames \cup {"increment", "reset"}, payload \in Payloads :
        Dispatch(name, payload)
  \/ Subscribe("l1")
  \/ Unsubscribe("l1")
  \/ ResetState

SpecCurried == InitCurried /\ [][NextCurried]_vars

\* createDispatch followed by the use of the machine it returned.
NextBuild ==
  \/ Build
  \/ \E name \in Range(BuildEvents) \cup ProtoNames, payload \in Payloads :
        Built /\ Dispatch(name, payload)
  \/ Built /\ Subscribe("l1")
  \/ Built /\ Unsubscribe("l1")
  \/ Built /\ ResetState

SpecBuild == InitBuild /\ [][NextBuild]_vars

\* ================================================================== claims
\* Vocabulary of the claims.
Declared(name) == name \in Range(events)
IsDispatch(call) == call.op = "dispatch"
\* The call returned normally.
Succeeded(call) == call.op = "dispatch" /\ call.err = "none"
\* The errors the engine itself raises.
EngineErrors == {"unknownEvent", "notArray", "invalidTransition"}
\* The transition-table entry of c is a sequence.
HasEntry(c) == c \in DOMAIN validNextEvents
\* Event e is a permitted successor of c according to the table.
Respects(c, e) ==
  /\ HasEntry(c)
  /\ validNextEvents[c] = <<>> \/ e \in Range(validNextEvents[c])
\* The dispatch recorded in call passed the engine's checks: it invoked the updater
\* and raised an error only if the updater or a listener threw.
PassedChecks(call) ==
  /\ call.err \notin EngineErrors
  /\ call.updaterCalled
  /\ call.err = "updaterThrew" =>
       \E p \in Payloads : runUpdater(call.event, state, p).threw
  /\ call.err = "listenerThrew" => \E l \in Range(listeners) : ListenerThrows(l)
  /\ call.err \in {"none", "listenerThrew"} => currentEvent = call.event

\* ---- C1 --------------------------------------------------------------------
\* C1: when currentEvent is a non-null event c whose table entry is a non-empty
\* sequence that does not contain e, dispatch(e) of a declared event e fails with
\* the invalid-transition error, invokes neither the updater nor any listener and
\* leaves state, currentEvent and the listener set unchanged; and two dispatches
\* that succeed one directly after the other respect the table.
C1_Rejects ==
  ( /\ IsDispatch(last') /\ Declared(last'.event)
    /\ currentEvent # Null /\ HasEntry(currentEvent)
    /\ validNextEvents[currentEvent] # <<>>
    /\ last'.event \notin Range(validNextEvents[currentEvent]) )
  => /\ last'.err = "invalidTransition"
     /\ ~last'.updaterCalled
     /\ last'.calls = <<>>
     /\ state' = state /\ currentEvent' = currentEvent /\ listeners' = listeners

C1_Consecutive ==
  /\ (Succeeded(last) /\ Succeeded(last')) => Respects(last.event, last'.event)
  /\ (Succeeded(last') /\ currentEvent # Null) => Respects(currentEvent, last'.event)

C1_InvalidTransitionRejected == [][C1_Rejects /\ C1_Consecutive]_vars

\* A rejected transition, on a machine with a subscribed listener.
C1_Witness ==
  /\ IsDispatch(last) /\ last.err = "invalidTransition" /\ Declared(last.event)
  /\ currentEvent = last.from /\ currentEvent # Null
  /\ listeners # <<>>

\* ---- C2 --------------------------------------------------------------------
\* C2: dispatch(name) with a name that is not a key of events throws the
\* unknown-event error, invokes no listener and leaves getState() and
\* getCurrentEvent() unchanged, whatever the transition check would say.
C2_UnknownEventRejected ==
  [][ (IsDispatch(last') /\ ~Declared(last'.event))
      => /\ last'.err = "unknownEvent"
         /\ last'.calls = <<>>
         /\ getState(state') = getState(state)
         /\ getCurrentEvent(currentEvent') = getCurrentEvent(currentEvent) ]_vars

\* ---- C3 --------------------------------------------------------------------
\* C3: every dispatch call that ends by raising an error, whatever raised it,
\* leaves state, currentEvent and the listener set as they were before the call
\* (stated here for the dispatches of declared events, where it already fails).
C3_FailedDispatchChangesNothing ==
  [][ (IsDispatch(last') /\ Declared(last'.event) /\ last'.err # "none")
      => state' = state /\ currentEvent' = currentEvent /\ listeners' = listeners ]_vars

\* ---- C4 --------------------------------------------------------------------
\* C4: when currentEvent is null (fresh machine or right after resetState),
\* dispatch(e) of a declared event e is never transition-checked: it passes the
\* engine's checks whatever the transition table holds.
C4_FirstEventAlwaysValid ==
  (IsDispatch(last) /\ last.from = Null /\ Declared(last.event)) => PassedChecks(last)

\* A first dispatch that succeeded although some table entry excludes the event.
C4_Witness ==
  /\ Succeeded(last) /\ last.from = Null /\ Declared(last.event)
  /\ \E k \in DOMAIN validNextEvents :
       validNextEvents[k] # <<>> /\ last.event \notin Range(validNextEvents[k])

C6_MissingEntryUnrestricted ==
  ( /\ IsDispatch(last) /\ Declared(last.event)
    /\ last.from # Null /\ Declared(last.from) /\ ~HasEntry(last.from) )
  => PassedChecks(last)

\* ---- C7 --------------------------------------------------------------------
\* C7: getCurrentEvent() is the name of the most recent successful dispatch since
\* construction or the last resetState, or null if there was none; a failed
\* dispatch never changes it (stated here for the calls other than dispatches of
\* undeclared names, where it already fails).
C7_CurrentEventIsLastSuccess ==
  [][ (IsDispatch(last') => Declared(last'.event))
      => /\ getCurrentEvent(currentEvent) = lastOk
              => getCurrentEvent(currentEvent') = lastOk'
         /\ Succeeded(last') => getCurrentEvent(currentEvent') = last'.event
         /\ (IsDispatch(last') /\ last'.err # "none")
              => getCurrentEvent(currentEvent') = getCurrentEvent(currentEvent) ]_vars

\* ---- C8 --------------------------------------------------------------------
\* C8: in every reachable state currentEvent is null or a key of events, and it
\* is null only before the first successful dispatch or after resetState.
C8_CurrentEventDeclared ==
  /\ currentEvent = Null \/ Declared(currentEvent)
  /\ currentEvent = Null => lastOk = Null

\* ---- C9 --------------------------------------------------------------------
\* C9: after any sequence of dispatches, resetState() makes getState() equal to
\* the state captured at construction and getCurrentEvent() equal to null.
C9_ResetRestoresInitial ==
  [][ /\ initialState' = initialState
      /\ last'.op = "resetState"
           => /\ getState(state') = initialState
              /\ getState(state') \in InitialStates
              /\ getCurrentEvent(currentEvent') = Null ]_vars

\* A reset made right after a draft-style dispatch (which had changed the state).
C9_Witness ==
  /\ last.op = "resetState" /\ last.from = "addItem"
  /\ state = initialState /\ currentEvent = Null

\* ---- C10 -------------------------------------------------------------------
\* C10: a dispatch that succeeds invokes each subscribed listener exactly once,
\* passing the post-dispatch state; a callback subscribed more than once is still
\* invoked only once.
C10_EachListenerOnce ==
  Succeeded(last) =>
    /\ \A l \in Range(listeners) :
         Cardinality({i \in 1..Len(last.calls) : last.calls[i].listener = l}) = 1
    /\ \A i \in 1..Len(last.calls) :
         /\ last.calls[i].listener \in Range(listeners)
         /\ last.calls[i].state = getState(state)

\* A successful dispatch that changed the state, with two listeners subscribed.
C10_Witness ==
  /\ Succeeded(last) /\ Len(listeners) = 2 /\ Len(last.calls) = 2
  /\ state # initialState

\* ---- C11 -------------------------------------------------------------------
\* C11: listeners are notified only after both state and currentEvent have been
\* updated: inside every listener invocation made by dispatch(e), getState()
\* returns the new state and getCurrentEvent() returns e, and every listener of
\* the call sees the one state the call produced.
C11_NotifiedAfterUpdate ==
  IsDispatch(last) =>
    \A i \in 1..Len(last.calls) :
      /\ last.calls[i].seenState = getState(state)
      /\ last.calls[i].state = getState(state)
      /\ last.calls[i].seenEvent = last.event
      /\ last.calls[i].seenEvent = getCurrentEvent(currentEvent)

\* Two listeners notified by a draft-style dispatch that changed the current event.
C11_Witness ==
  /\ Succeeded(last) /\ Len(last.calls) = 2
  /\ last.event = "addItem" /\ last.from \notin {Null, "addItem"}

\* ---- C12 -------------------------------------------------------------------
\* C12: calling the function returned by subscribe(l) removes exactly l: l is
\* invoked by no later dispatch, every other subscribed listener keeps being
\* invoked, and a further call of the function changes nothing and raises nothing.
C12_UnsubscribeRemovesExactlyOne ==
  [][ /\ last'.op = "unsubscribe"
        => /\ last'.err = "none"
           /\ last'.listener \notin Range(listeners')
           /\ listeners' = SelectSeq(listeners, LAMBDA x : x # last'.listener)
           /\ last'.listener \notin Range(listeners) => listeners' = listeners
      /\ IsDispatch(last')
        => /\ \A i \in 1..Len(last'.calls) :
                last'.calls[i].listener \in Range(listeners)
           /\ Succeeded(last') =>
                \A l \in Range(listeners) :
                  \E i \in 1..Len(last'.calls) : last'.calls[i].listener = l
      /\ last'.op \notin {"subscribe", "unsubscribe"} => listeners' = listeners ]_vars

\* A dispatch made after one of two listeners was unsubscribed: the other is
\* invoked, the removed one is not.
C12_Witness ==
  /\ Succeeded(last) /\ Len(last.calls) = 1
  /\ Len(listeners) = 1
  /\ \E l \in handles : l \notin Range(listeners) /\ ~ListenerThrows(l)

C14_InitiallyAllEventsInDeclaredOrder ==
  last.op \in {"new", "resetState"} =>
    /\ getCurrentEvent(currentEvent) = Null
    /\ getValidNextEvents(events, validNextEvents, currentEvent)
         = [kind |-> "array", val |-> events]

\* ---- C15 -------------------------------------------------------------------
\* C15: when currentEvent is non-null, getValidNextEvents() returns the table
\* entry of currentEvent, same elements in the same order, and the empty
\* sequence when the entry is empty or missing.
C15_ValidNextIsTableEntry ==
  currentEvent # Null =>
    getValidNextEvents(events, validNextEvents, currentEvent)
      = [kind |-> "array",
         val |-> IF HasEntry(currentEvent) THEN validNextEvents[currentEvent] ELSE <<>>]

\* ---- C16 -------------------------------------------------------------------
\* C16: when the updater returns a non-null, non-function object, the new state
\* is the previous state with exactly the returned object's keys overwritten;
\* every other key keeps its value.  Hence each dispatch of the counter
\* increment adds one to count, and n of them from count 0 yield count n.
C16_ReturnedObjectIsShallowMerged ==
  [][ IsDispatch(last') /\ last'.updaterCalled /\ last'.err # "updaterThrew"
        => \A payload \in Payloads :
             LET u == runUpdater(last'.event, state, payload)
                 ret == u.result.val
             IN u.result.kind = "object"
                  => /\ DOMAIN state' = DOMAIN state \cup DOMAIN ret
                     /\ \A k \in DOMAIN ret : state'[k] = ret[k]
                     /\ \A k \in DOMAIN state \ DOMAIN ret : state'[k] = state[k]
                     /\ last'.event = "increment"
                          => state'.count = state.count + 1 ]_vars

\* The second increment after the counter was set to 0 has returned, with a
\* non-empty item list kept alongside.
C16_Witness ==
  /\ Succeeded(last) /\ last.event = "increment" /\ last.from = "increment"
  /\ state.count = MaxCount /\ state.items # <<>>

\* ---- C17 -------------------------------------------------------------------
\* C17: when the updater returns nothing and edits its draft (nested edits such
\* as appending to a list included), the new state is exactly the draft's final
\* content, the parts it did not edit keep their value, and the state object
\* held before the dispatch, like the initial state, is not altered.
C17_DraftEditsBecomeState ==
  [][ IsDispatch(last') /\ last'.updaterCalled /\ last'.err # "updaterThrew"
        => \A payload \in Payloads :
             LET u == runUpdater(last'.event, state, payload)
             IN u.result.kind = "void"
                  => /\ state' = u.draft
                     /\ \A k \in DOMAIN state : u.draft[k] = state[k] => state'[k] = state[k]
                     /\ refs.held.isState /\ refs'.held.src = refs.held.src
                          /\ ~refs'.held.isState
                          => refs'.held.val = state
                     /\ initialState' = initialState ]_vars

\* addItem has been applied while the caller held the previous state, obtained
\* from getState(), which still has no item.
C17_Witness ==
  /\ Succeeded(last) /\ last.event = "addItem"
  /\ refs.held.src = "getState" /\ ~refs.held.isState
  /\ refs.held.val.items = <<>> /\ state.items # <<>>
  /\ state.count # initialState.count

\* ---- C18 -------------------------------------------------------------------
\* C18: when the updater returns a function, the engine invokes that function
\* on the draft, and the edits it makes are part of the new state of that
\* dispatch.
C18_ReturnedFunctionIsInvoked ==
  [][ IsDispatch(last') /\ last'.updaterCalled /\ last'.err # "updaterThrew"
        => \A payload \in Payloads :
             LET u == runUpdater(last'.event, state, payload)
             IN u.result.kind = "function"
                  => state' = runContinuation(u.result.val.fn, u.draft) ]_vars

\* ---- C19, C20: vocabulary ------------------------------------------------------
\* createDispatch has returned or thrown.
BuildDone == build.status \in {"built", "failed"}
\* The keys of the config's events object.
ConfigNames == Range(build.config.events)
\* The table entries in the order createDispatch visits them.
ConfigEntries == objectEntries(build.config.validNextEvents)
UnknownKeys == {e.key : e \in Range(ConfigEntries)} \ ConfigNames
UnknownSuccessorsOf(e) ==
  IF e.val.kind = "array" THEN Range(e.val.val) \ ConfigNames ELSE {}
UnknownSuccessors == UNION {UnknownSuccessorsOf(e) : e \in Range(ConfigEntries)}
Offends(e) == e.key \notin ConfigNames \/ UnknownSuccessorsOf(e) # {}
\* The first entry, in visiting order, with an unknown key or successor.
FirstOffender ==
  ConfigEntries[CHOOSE i \in 1..Len(ConfigEntries) :
                  /\ Offends(ConfigEntries[i])
                  /\ \A j \in 1..(i - 1) : ~Offends(ConfigEntries[j])]
ReferenceErrors == {"unknownKey", "unknownSuccessor"}
SchemaAccepts ==
  build.config.schema # "none"
    => safeParse(build.config.schema, build.config.initialState).success

\* ---- C19 -------------------------------------------------------------------
\* C19 as stated: whenever some key of the table is not a key of events,
\* createDispatch fails with the unknown-event-reference error naming such a
\* key, and returns no machine.
C19_UnknownKeyAlwaysNamed ==
  BuildDone /\ UnknownKeys # {}
    => /\ build.status = "failed" /\ NoMachine
       /\ build.err \in ReferenceErrors
       /\ build.name \in UnknownKeys

\* C19, amended: when the schema, if any, accepts the initial state and some key
\* of the table is not a key of events, createDispatch fails with the
\* unknown-event-reference error and returns no machine; the error names an
\* undeclared name, and it names the key of the first offending entry when
\* that key is the unknown one.
C19_UnknownKeyRejected ==
  BuildDone /\ SchemaAccepts /\ UnknownKeys # {}
    => /\ build.status = "failed" /\ NoMachine
       /\ build.err \in ReferenceErrors
       /\ build.name \notin ConfigNames
       /\ FirstOffender.key \in UnknownKeys
            => build.err = "unknownKey" /\ build.name = FirstOffender.key

\* createDispatch has thrown for the unknown key of the second entry, after a
\* first entry that is in order.
C19_Witness ==
  /\ build.status = "failed" /\ build.err = "unknownKey" /\ build.name = "ghost"
  /\ build.config.schema = "accepts"
  /\ Len(ConfigEntries) = 2 /\ ConfigEntries[2].key = "ghost"
  /\ ConfigEntries[1].val.kind = "array" /\ ConfigEntries[1].val.val # <<>>

\* ---- C20 -------------------------------------------------------------------
\* C20 as stated: whenever some name in a successor sequence of the table is
\* not a key of events, createDispatch fails with the unknown-event-reference
\* error naming such a successor, and returns no machine.
C20_UnknownSuccessorAlwaysNamed ==
  BuildDone /\ UnknownSuccessors # {}
    => /\ build.status = "failed" /\ NoMachine
       /\ build.err \in ReferenceErrors
       /\ build.name \in UnknownSuccessors

\* C20, amended: when the schema, if any, accepts the initial state and some
\* name in a successor sequence is not a key of events, createDispatch fails
\* with the unknown-event-reference error and returns no machine; the error
\* names an undeclared name, and when the key of the first offending entry is
\* declared it names the first unknown successor of that entry.
C20_UnknownSuccessorRejected ==
  BuildDone /\ SchemaAccepts /\ UnknownSuccessors # {}
    => /\ build.status = "failed" /\ NoMachine
       /\ build.err \in ReferenceErrors
       /\ build.name \notin ConfigNames
       /\ FirstOffender.key \in ConfigNames
            => /\ build.err = "unknownSuccessor"
               /\ build.key = FirstOffender.key
               /\ build.name = unknownSuccessor(build.config.events, FirstOffender.val)

\* createDispatch has thrown for the unknown second successor of the second
\* entry, with no schema.
C20_Witness ==
  /\ build.status = "failed" /\ build.err = "unknownSuccessor"
  /\ build.name = "phantom" /\ build.config.schema = "none"
  /\ Len(ConfigEntries) = 2 /\ build.key = ConfigEntries[2].key
  /\ ConfigEntries[2].val.val = <<"reset", "phantom">>

\* ---- C21 -------------------------------------------------------------------
\* C21: when a schema is supplied and rejects initialState, createDispatch
\* fails with the initial-state-validation error carrying the schema's message
\* and returns no machine, also when the transition table holds an unknown
\* event reference: the schema is consulted first.
C21_SchemaRejectionComesFirst ==
  BuildDone /\ ~SchemaAccepts
    => /\ build.status = "failed" /\ NoMachine
       /\ build.err = "validationFailed"
       /\ build.message
            = safeParse(build.config.schema, build.config.initialState).message

\* createDispatch has thrown the validation error of a rejecting schema for a
\* config whose table has an unknown key and an unknown successor.
C21_Witness ==
  /\ build.status = "failed" /\ build.err = "validationFailed"
  /\ build.message = "items required"
  /\ UnknownKeys # {} /\ UnknownSuccessors # {}

\* ---- C22 -------------------------------------------------------------------
\* C22: the table createDispatch hands to the engine maps every key to a
\* sequence, an absent entry having become the empty sequence; so in a machine
\* it returned, a declared event with no entry in the config has the empty,
\* unrestricted successor list once it is current: every declared event passes
\* the transition check after it.
ConfigKeys == {e.key : e \in Range(ConfigEntries)}

C22_AbsentEntryNormalizedToEmpty ==
  Built =>
    /\ \A k \in DOMAIN validNextEvents : tableGet(validNextEvents, k).kind = "array"
    /\ \A e \in Range(ConfigEntries) :
         e.val.kind = "undefined" => validNextEvents[e.key] = <<>>
    /\ currentEvent \in ConfigNames \ ConfigKeys
         => /\ getValidNextEvents(events, validNextEvents, currentEvent)
                 = [kind |-> "array", val |-> <<>>]
            /\ \A d \in ConfigNames :
                 transitionError(validNextEvents, currentEvent, d) = "none"

\* ---- C23 -------------------------------------------------------------------
\* C23: in every reachable state of a machine returned by createDispatch, every
\* key of its transition table, every name in every successor sequence, and so
\* every name getValidNextEvents() returns, is a declared event; and
\* createDispatch returns a machine exactly when the schema, if any, accepts
\* initialState and all keys and successors of the table are declared.
C23_BuiltTableIsClosed ==
  /\ Built =>
       /\ DOMAIN validNextEvents \subseteq Range(events)
       /\ \A k \in DOMAIN validNextEvents : Range(validNextEvents[k]) \subseteq Range(events)
       /\ Range(getValidNextEvents(events, validNextEvents, currentEvent).val)
            \subseteq Range(events)
  /\ BuildDone =>
       (Built <=> SchemaAccepts /\ UnknownKeys = {} /\ UnknownSuccessors = {})

\* A built machine with a two-entry table is in use and its current event has
\* a restricting successor list.
C23_Witness ==
  /\ Built /\ Len(ConfigEntries) = 2 /\ build.config.schema = "accepts"
  /\ currentEvent = "reset" /\ HasEntry("reset") /\ validNextEvents["reset"] # <<>>
  /\ HasEntry("increment") /\ validNextEvents["increment"] # <<>>

\* ---- C24 -------------------------------------------------------------------
\* C24: a machine returned by createDispatch with at least one declared event
\* has no terminal state: in every state reached by dispatching declared events
\* and resetting, some declared event is accepted by dispatch.
C24_SomeEventAlwaysAccepted ==
  Built /\ ConfigNames # {} /\ currentEvent \in ConfigNames \cup {Null}
    => \E e \in Range(events) :
         /\ eventExists(events, e)
         /\ transitionError(validNextEvents, currentEvent, e) = "none"

\* ---- C25 -------------------------------------------------------------------
\* C25: resetState() leaves the listener set unchanged, and the dispatch that
\* follows a reset, if it returns normally, invokes every listener subscribed
\* before the reset exactly once.
C25_ResetKeepsListeners ==
  [][ /\ last'.op = "resetState" => listeners' = listeners
      /\ last.op = "resetState" /\ IsDispatch(last') /\ Succeeded(last')
           => \A l \in Range(listeners) :
                Cardinality({i \in 1..Len(last'.calls) : last'.calls[i].listener = l}) = 1
    ]_vars

\* resetState() has been called on a machine with a current event and two
\* subscribed listeners.
C25_Witness ==
  /\ last.op = "resetState" /\ last.from # Null
  /\ Len(listeners) = 2 /\ ~ListenerThrows(listeners[1]) /\ ~ListenerThrows(listeners[2])

\* ---- C26 -------------------------------------------------------------------
\* C26: an exception raised by a listener during notification is not caught:
\* the dispatch call fails with it, and the listeners after the throwing one in
\* iteration order are not invoked for that dispatch.
C26_ListenerExceptionPropagates ==
  IsDispatch(last) /\ last.updaterCalled /\ last.err # "updaterThrew"
    => \A k \in 1..Len(listeners) :
         ListenerThrows(listeners[k])
           => /\ last.err = "listenerThrew"
              /\ Len(last.calls) = k
              /\ \A i \in 1..k : last.calls[i].listener = listeners[i]
              /\ \A j \in (k + 1)..Len(listeners) :
                   \A i \in 1..Len(last.calls) : last.calls[i].listener # listeners[j]

\* A dispatch has failed in the second of three listeners: the first was
\* invoked, the third was not.
C26_Witness ==
  /\ IsDispatch(last) /\ last.err = "listenerThrew"
  /\ Len(listeners) = 3 /\ ListenerThrows(listeners[2]) /\ Len(last.calls) = 2

\* ---- C27 -------------------------------------------------------------------
\* C27: the state is replaced, never edited in place: a snapshot returned by
\* getState() or delivered to a listener keeps the value it had when obtained,
\* whatever dispatch and resetState calls follow, and the initial snapshot that
\* resetState restores is never altered by a dispatch.
C27_SnapshotsKeepTheirValue ==
  /\ refs.held.val = refs.held.got
  /\ initialState \in InitialStates
  /\ resetState(Machine).state \in InitialStates
  /\ refs.held.isInit => refs.held.val = initialState

\* A state object delivered to a listener is still held after later dispatches
\* replaced the state and a reset restored the initial one.
C27_Witness ==
  /\ last.op = "resetState"
  /\ refs.held.src = "listener" /\ ~refs.held.isState
  /\ refs.held.val.items # <<>> /\ refs.held.val.count = 1
  /\ last.from = "increment"

\* ---- C28 -------------------------------------------------------------------
\* C28: after construction the events mapping and the transition table never
\* change: no call of dispatch, subscribe, unsubscribe, getState,
\* getValidNextEvents or resetState alters them, and a caller writing to an
\* array returned by getValidNextEvents() does not change which dispatches are
\* accepted afterwards.
C28_EventsAndTableNeverChange ==
  [][ /\ events' = events
      /\ \A c \in DeclNames \cup {Null}, e \in DeclNames :
           /\ eventExists(events', e) = eventExists(events, e)
           /\ transitionError(validNextEvents', c, e)
                = transitionError(validNextEvents, c, e) ]_vars

\* ---- C29 -------------------------------------------------------------------
\* C29: getValidNextEvents() and dispatch agree: in every reachable state, for
\* every declared event e, dispatch(e) passes the transition check if and only
\* if currentEvent is null, or getValidNextEvents() is empty, or it contains e.
C29_ValidNextAgreesWithDispatch ==
  currentEvent \in Range(events) \cup {Null} =>
    LET valid == getValidNextEvents(events, validNextEvents, currentEvent).val IN
    \A e \in Range(events) :
      transitionError(validNextEvents, currentEvent, e) = "none"
        <=> (currentEvent = Null \/ valid = <<>> \/ e \in Range(valid))

\* ---- C30 -------------------------------------------------------------------
\* C30: every listener invocation made by a dispatch call passes the state that
\* same call produced, also when an earlier listener of the pass dispatched
\* again; so in a dispatch that returned normally each subscribed listener
\* received the states produced, in the order they were produced, each once.
ProducedBy(call) ==
  LET made == [d \in 0..1 |-> {call.calls[i].produced :
                                 i \in {j \in 1..Len(call.calls) : call.calls[j].depth = d}}]
  IN IF made[1] = {} THEN <<CHOOSE st \in made[0] : TRUE>>
     ELSE <<CHOOSE st \in made[0] : TRUE, CHOOSE st \in made[1] : TRUE>>

ReceivedBy(call, l) ==
  LET mine == SelectSeq(call.calls, LAMBDA c : c.listener = l)
  IN [i \in 1..Len(mine) |-> mine[i].state]

C30_ListenerGetsStateOfItsDispatch ==
  IsDispatch(last) =>
    /\ \A i \in 1..Len(last.calls) : last.calls[i].state = last.calls[i].produced
    /\ Succeeded(last) /\ last.calls # <<>>
         => \A l \in Range(listeners) : ReceivedBy(last, l) = ProducedBy(last)

\* ---- C31 -------------------------------------------------------------------
\* C31: when a listener calls dispatch(e2) during the notification of a
\* successful dispatch(e1), the nested call is transition-checked against e1's
\* successor list, both updates are applied, e1's then e2's, and after the
\* outer call has returned getCurrentEvent() is e2 and getState() is e2's
\* updater applied to the state e1 produced.
NestedIn(call) == \E i \in 1..Len(call.calls) : call.calls[i].depth = 1

DispatchedInside(call) ==
  \E i \in 1..Len(call.calls) :
    /\ call.calls[i].depth = 0
    /\ ListenerDispatches(call.calls[i].listener, call.calls[i].state)

C31_NestedDispatchAppliesBoth ==
  [][ Succeeded(last') /\ DispatchedInside(last')
        => \A payload \in Payloads :
             LET s1 == produceState(state, last'.event, payload).state
                 s2 == produceState(s1, "increment", payload).state
             IN /\ transitionError(validNextEvents, last'.event, "increment") = "none"
                /\ NestedIn(last')
                /\ getCurrentEvent(currentEvent') = "increment"
                /\ getState(state') = s2
                /\ s1 # state /\ s2 # s1 ]_vars

\* dispatch("addItem") has returned after a listener dispatched "increment"
\* from inside its notification, on a machine that had a current event.
C31_Witness ==
  /\ Succeeded(last) /\ DispatchedInside(last) /\ NestedIn(last)
  /\ last.event = "addItem" /\ last.from # Null
  /\ Len(listeners) = 2

\* ---- C32 -------------------------------------------------------------------
\* C32: the listeners invoked by a successful dispatch are exactly those
\* subscribed when its notification starts, each once: one unsubscribed by
\* another listener during the pass is still invoked in it, and one subscribed
\* during the pass is not invoked before the next dispatch.
C32_NotifiesSubscribersAtStart ==
  [][ Succeeded(last')
        => [i \in 1..Len(last'.calls) |-> last'.calls[i].listener] = listeners ]_vars

\* ---- C33 -------------------------------------------------------------------
\* C33: whenever a successful dispatch or resetState changes what getState() or
\* getCurrentEvent() returns, every currently subscribed listener is invoked
\* with the new state.
C33_EveryChangeIsDelivered ==
  [][ /\ Succeeded(last') \/ last'.op = "resetState"
      /\ \/ getState(state') # getState(state)
         \/ getCurrentEvent(currentEvent') # getCurrentEvent(currentEvent)
      => \A l \in Range(listeners') :
           \E i \in 1..Len(last'.calls) :
             /\ last'.calls[i].listener = l
             /\ last'.calls[i].state = getState(state') ]_vars

\* ---- C34 -------------------------------------------------------------------
\* C34: an unsubscribe function cancels only the subscription that returned
\* it: a listener stays subscribed as long as one of the unsubscribe functions
\* returned for it has not been called (a stale function called again, or one
\* of two functions called, leaves it subscribed).
C34_SubscribedUntilOwnHandleCalled ==
  \A h \in 1..Len(issued) :
    ~issued[h].called => issued[h].listener \in Range(listeners)

\* ---- C35 -------------------------------------------------------------------
\* C35: when the updater of a permitted event throws, dispatch raises that
\* exception, state and currentEvent keep their values and no listener is
\* invoked; the dispatch that follows is transition-checked against the
\* unchanged currentEvent.
C35_UpdaterExceptionLeavesMachine ==
  [][ /\ /\ IsDispatch(last')
         /\ eventExists(events, last'.event)
         /\ transitionError(validNextEvents, currentEvent, last'.event) = "none"
         /\ \E p \in Payloads : runUpdater(last'.event, state, p).threw
         => /\ last'.err = "updaterThrew"
            /\ getState(state') = getState(state)
            /\ getCurrentEvent(currentEvent') = getCurrentEvent(currentEvent)
            /\ last'.calls = <<>>
      /\ /\ IsDispatch(last) /\ last.err = "updaterThrew"
         /\ IsDispatch(last') /\ eventExists(events, last'.event)
         => LET t == transitionError(validNextEvents, last.from, last'.event) IN
            IF t = "none" THEN last'.updaterCalled ELSE last'.err = t ]_vars

C35_Witness ==
  /\ IsDispatch(last) /\ last.err = "updaterThrew" /\ last.event = "fail"
  /\ last.from = "increment" /\ currentEvent = "increment"
  /\ state.count = 2 /\ listeners # <<>>

\* ---- C36 -------------------------------------------------------------------
\* C36: the existence check of dispatch and the builder's reference check
\* accept the same names, the own keys of events: a dispatched name the builder
\* would reject as unknown is rejected with the unknown-event error and does
\* not become currentEvent, and a name the builder accepts passes the
\* existence check.
C36_ChecksAcceptSameNames ==
  [][ IsDispatch(last')
        => /\ unknownKey(events, last'.event)
                => /\ last'.err = "unknownEvent"
                   /\ getCurrentEvent(currentEvent') # last'.event
           /\ ~unknownKey(events, last'.event)
                => last'.err # "unknownEvent" ]_vars

\* ---- C37 -------------------------------------------------------------------
\* C37: subscribe, unsubscribe, getState, getCurrentEvent and getValidNextEvents
\* change neither state nor currentEvent and invoke no listener; subscribe and
\* unsubscribe change only the membership of the one listener concerned, and
\* the three getters change nothing of the machine.
Getters == {"getState", "getCurrentEvent", "getValidNextEvents"}
Others(ls, l) == SelectSeq(ls, LAMBDA x : x # l)

C37_ReadsAndSubscriptionsFrame ==
  [][ last'.op \in Getters \cup {"subscribe", "unsubscribe"}
        => /\ getState(state') = getState(state)
           /\ getCurrentEvent(currentEvent') = getCurrentEvent(currentEvent)
           /\ last'.calls = <<>>
           /\ <<events', validNextEvents', initialState', refs'.stateIsInit>>
                = <<events, validNextEvents, initialState, refs.stateIsInit>>
           /\ getValidNextEvents(events', validNextEvents', currentEvent')
                = getValidNextEvents(events, validNextEvents, currentEvent)
           /\ last'.op = "subscribe"
                => /\ last'.listener \in Range(listeners')
                   /\ Others(listeners', last'.listener) = Others(listeners, last'.listener)
           /\ last'.op = "unsubscribe"
                => /\ last'.listener \notin Range(listeners')
                   /\ Others(listeners', last'.listener) = Others(listeners, last'.listener)
           /\ last'.op \in Getters => listeners' = listeners ]_vars

C37_Witness ==
  /\ last.op = "subscribe" /\ last.listener = "l2"
  /\ listeners = <<"l1", "l2">>
  /\ currentEvent = "increment" /\ state.count = 2

====
